---- MODULE Spec2Model ----
(***************************************************************************)
(* Model of the interval / session reconciliation engine of                *)
(* simplifield_overtime_script.py: work calendar, interval algebra,        *)
(* session builder and compute_overtime (aggregation + lunch heuristic).   *)
(*                                                                         *)
(* Time is the local wall clock in whole seconds.  All datetimes of the    *)
(* script carry the same ZoneInfo(LOCAL_TZ) object, and Python compares    *)
(* and subtracts such datetimes by their wall-clock fields, so a datetime  *)
(* is the integer  date * 86400 + second-of-day.  Date 0 is 1970-01-01,    *)
(* a Thursday.                                                             *)
(***************************************************************************)
EXTENDS Integers, Sequences, FiniteSets, TLC

VARIABLES
    SHIFT_WINDOWS,   \* weekday (0=Mon..6=Sun) -> list of <<start, end>> times of day
    HOLIDAYS,        \* set of dates (holidays and PTO days)
    evidence,        \* the four collections handed to compute_overtime:
                     \* [commits, prs, calendar, slack_msgs], each a list of rows
    result,          \* outcome of the last run of compute_overtime
    rerun,           \* outcome of a second run after the table was replaced
    arg_intervals,   \* argument of merge_intervals in the interval-algebra runs
    arg_points,      \* argument of sessions_from_points in the session runs
    ret,             \* value returned by the pure function under test
    pc

vars == <<SHIFT_WINDOWS, HOLIDAYS, evidence, result, rerun,
          arg_intervals, arg_points, ret, pc>>

----------------------------------------------------------------------------
(* Program constants *)

gap_min == 45
pad_before_min == 10
pad_after_min == 15
LUNCH_MINUTES == 60
NOTES_CAP == 5

(* Bounds of the model *)

MaxLen == 3          \* longest interval list given to merge_intervals
MaxTime == 3         \* interval end points range over 0..MaxTime in those runs
MaxPoints == 4       \* most points given to sessions_from_points
MaxDate == 2         \* the runs concern the dates 0..MaxDate
MaxEvidence == 3     \* most evidence records of a run of the engine
MaxCfgEvidence == 2  \* most evidence records of a run under a varied table
MaxNoteEvidence == 6 \* most evidence records of a run of the notes scenario
MaxSpanEvidence == 3 \* most evidence records of a run with spans over midnight

----------------------------------------------------------------------------
(* Wall-clock helpers *)

DaySeconds == 24 * 3600
hms(h, m, s) == h * 3600 + m * 60 + s
minutes(n) == n * 60

\* datetime.combine(d, t, tzinfo=tz)
combine(d, t) == d * DaySeconds + t
\* dt.date()
DateOf(t) == t \div DaySeconds
\* d.weekday(); 1970-01-01 was a Thursday (3)
weekday(d) == (d + 3) % 7

max(a, b) == IF a >= b THEN a ELSE b
min(a, b) == IF a <= b THEN a ELSE b

lo(iv) == iv[1]
hi(iv) == iv[2]

RECURSIVE Flatten(_)
Flatten(ss) == IF ss = <<>> THEN <<>> ELSE Head(ss) \o Flatten(Tail(ss))

\* Python's sorted(xs, key=...): a stable sort.  keys[i] is the key of xs[i];
\* the value is the list of indices in sorted order.
RECURSIVE InsertIdx(_, _, _)
InsertIdx(keys, i, done) ==
    IF done = <<>> THEN <<i>>
    ELSE IF keys[done[Len(done)]] <= keys[i] THEN Append(done, i)
    ELSE Append(InsertIdx(keys, i, SubSeq(done, 1, Len(done) - 1)), done[Len(done)])

RECURSIVE SortIdxFrom(_, _, _)
SortIdxFrom(keys, i, done) ==
    IF i > Len(keys) THEN done
    ELSE SortIdxFrom(keys, i + 1, InsertIdx(keys, i, done))

sorted(xs, keys) ==
    LET perm == SortIdxFrom(keys, 1, <<>>)
    IN  [i \in 1..Len(xs) |-> xs[perm[i]]]

----------------------------------------------------------------------------
(* Interval algebra *)

\* faulty variant: the fold joins only properly overlapping intervals (s < le)
RECURSIVE merge_fold_strict(_, _)
merge_fold_strict(merged, rest) ==
    IF rest = <<>> THEN merged
    ELSE LET s == lo(Head(rest))
             e == hi(Head(rest))
             n == Len(merged)
             ls == lo(merged[n])
             le == hi(merged[n])
         IN  IF s < le
             THEN merge_fold_strict([merged EXCEPT ![n] = <<ls, max(le, e)>>], Tail(rest))
             ELSE merge_fold_strict(Append(merged, <<s, e>>), Tail(rest))

\* faulty variant: the fold also joins intervals one second apart (s <= le + 1)
RECURSIVE merge_fold_adjacent(_, _)
merge_fold_adjacent(merged, rest) ==
    IF rest = <<>> THEN merged
    ELSE LET s == lo(Head(rest))
             e == hi(Head(rest))
             n == Len(merged)
             ls == lo(merged[n])
             le == hi(merged[n])
         IN  IF s <= le + 1
             THEN merge_fold_adjacent([merged EXCEPT ![n] = <<ls, max(le, e)>>], Tail(rest))
             ELSE merge_fold_adjacent(Append(merged, <<s, e>>), Tail(rest))

RECURSIVE merge_fold(_, _)
merge_fold(merged, rest) ==
    IF rest = <<>> THEN merged
    ELSE LET s == lo(Head(rest))
             e == hi(Head(rest))
             n == Len(merged)
             ls == lo(merged[n])
             le == hi(merged[n])
         IN  IF s <= le
             THEN merge_fold([merged EXCEPT ![n] = <<ls, max(le, e)>>], Tail(rest))
             ELSE merge_fold(Append(merged, <<s, e>>), Tail(rest))

merge_intervals(intervals) ==
    IF intervals = <<>> THEN <<>>
    ELSE LET srt == sorted(intervals, [i \in 1..Len(intervals) |-> lo(intervals[i])])
         IN  merge_fold(<<srt[1]>>, Tail(srt))

----------------------------------------------------------------------------
(* Work calendar *)

\* faulty variant: the exception set is not consulted
day_work_windows_no_holidays(d) ==
    SHIFT_WINDOWS[weekday(d)]

day_work_windows(d) ==
    IF d \in HOLIDAYS \/ SHIFT_WINDOWS[weekday(d)] = <<>>
    THEN <<>>
    ELSE SHIFT_WINDOWS[weekday(d)]

full_start(d) == combine(d, hms(0, 0, 0))
full_end(d) == combine(d, hms(23, 59, 59))

\* the loop of outside_segments_for_day: <<cursor, outside>> after the
\* merged working intervals `inside`
RECURSIVE outside_loop(_, _, _)
outside_loop(inside, cursor, outside) ==
    IF inside = <<>> THEN <<cursor, outside>>
    ELSE LET s == lo(Head(inside))
             e == hi(Head(inside))
         IN  outside_loop(Tail(inside), max(cursor, e),
                          IF cursor < s THEN Append(outside, <<cursor, s>>) ELSE outside)

\* faulty variant: the working windows are complemented in the configured order,
\* without being merged first
outside_segments_for_day_unmerged(d) ==
    LET windows == day_work_windows(d)
    IN  IF windows = <<>> THEN << <<full_start(d), full_end(d)>> >>
        ELSE LET inside == [i \in 1..Len(windows) |->
                               <<combine(d, lo(windows[i])), combine(d, hi(windows[i]))>>]
                 after == outside_loop(inside, full_start(d), <<>>)
             IN  IF after[1] < full_end(d)
                 THEN Append(after[2], <<after[1], full_end(d)>>)
                 ELSE after[2]

outside_segments_for_day(d) ==
    LET windows == day_work_windows(d)
    IN  IF windows = <<>> THEN << <<full_start(d), full_end(d)>> >>
        ELSE LET inside == merge_intervals(
                               [i \in 1..Len(windows) |->
                                   <<combine(d, lo(windows[i])), combine(d, hi(windows[i]))>>])
                 after == outside_loop(inside, full_start(d), <<>>)
             IN  IF after[1] < full_end(d)
                 THEN Append(after[2], <<after[1], full_end(d)>>)
                 ELSE after[2]

\* the inner loop of intersect_interval_with_outside and of the lunch
\* heuristic: the parts of [seg_s, seg_e] inside each interval of `within`
RECURSIVE clip(_, _, _)
clip(within, seg_s, seg_e) ==
    IF within = <<>> THEN <<>>
    ELSE LET s == max(seg_s, lo(Head(within)))
             e == min(seg_e, hi(Head(within)))
         IN  (IF s < e THEN << <<s, e>> >> ELSE <<>>) \o clip(Tail(within), seg_s, seg_e)

\* the while loop of intersect_interval_with_outside, from `cur` on
RECURSIVE intersect_loop(_, _, _)
intersect_loop(start, end, cur) ==
    IF DateOf(cur) > DateOf(end) THEN <<>>
    ELSE LET day == DateOf(cur)
             day_start == combine(day, hms(0, 0, 0))
             day_end == combine(day, hms(23, 59, 59))
             seg_start == max(start, day_start)
             seg_end == min(end, day_end)
         IN  (IF seg_start < seg_end
              THEN clip(outside_segments_for_day(day), seg_start, seg_end)
              ELSE <<>>)
             \o intersect_loop(start, end, day_end + 1)

intersect_interval_with_outside(start, end) ==
    merge_intervals(intersect_loop(start, end, start))

----------------------------------------------------------------------------
(* Session builder *)

\* faulty variant: a gap equal to the threshold already splits (>= instead of >)
RECURSIVE sessions_loop_ge(_, _, _, _)
sessions_loop_ge(rest, start, last, sessions) ==
    IF rest = <<>>
    THEN Append(sessions, <<start - minutes(pad_before_min), last + minutes(pad_after_min)>>)
    ELSE LET t == Head(rest)
         IN  IF (t - last) >= minutes(gap_min)
             THEN sessions_loop_ge(Tail(rest), t, t,
                      Append(sessions, <<start - minutes(pad_before_min),
                                         last + minutes(pad_after_min)>>))
             ELSE sessions_loop_ge(Tail(rest), start, t, sessions)

\* faulty variant: a session is closed at its first and last point, unpadded
RECURSIVE sessions_loop_unpadded(_, _, _, _)
sessions_loop_unpadded(rest, start, last, sessions) ==
    IF rest = <<>>
    THEN Append(sessions, <<start, last>>)
    ELSE LET t == Head(rest)
         IN  IF (t - last) > minutes(gap_min)
             THEN sessions_loop_unpadded(Tail(rest), t, t, Append(sessions, <<start, last>>))
             ELSE sessions_loop_unpadded(Tail(rest), start, t, sessions)

\* the for loop of sessions_from_points over the sorted points after the
\* first one
RECURSIVE sessions_loop(_, _, _, _)
sessions_loop(rest, start, last, sessions) ==
    IF rest = <<>>
    THEN Append(sessions, <<start - minutes(pad_before_min), last + minutes(pad_after_min)>>)
    ELSE LET t == Head(rest)
         IN  IF (t - last) > minutes(gap_min)
             THEN sessions_loop(Tail(rest), t, t,
                      Append(sessions, <<start - minutes(pad_before_min),
                                         last + minutes(pad_after_min)>>))
             ELSE sessions_loop(Tail(rest), start, t, sessions)

\* faulty variant: the points are walked in the order given, not sorted
sessions_from_points_unsorted(points) ==
    IF points = <<>> THEN <<>>
    ELSE sessions_loop(Tail(points), points[1], points[1], <<>>)

sessions_from_points(points) ==
    IF points = <<>> THEN <<>>
    ELSE LET srt == sorted(points, points)
         IN  sessions_loop(Tail(srt), srt[1], srt[1], <<>>)

----------------------------------------------------------------------------
(* Evidence rows *)

\* A timestamp_local string is [ok, t]: ok says whether it is ISO text that
\* datetime.fromisoformat accepts, t is the local instant it denotes (for a
\* malformed string t only tells one such string from another).
Timestamp(t) == [ok |-> TRUE, t |-> t]
Malformed(k) == [ok |-> FALSE, t |-> k]

\* parse_iso_local: <<datetime>> on success, <<>> for None
parse_iso_local(dt_str) == IF dt_str.ok THEN <<dt_str.t>> ELSE <<>>

InstantRow(source, t) ==
    [source |-> source, timestamp_local |-> Timestamp(t), detail |-> t]

\* add_event of collect_calendar_events: timestamp_local is s.isoformat()
CalendarRow(s, e) ==
    [source |-> "calendar", timestamp_local |-> Timestamp(s),
     start |-> s, end |-> e, detail |-> e]

note(r) == <<r.source, r.detail>>
lunch_note == <<"lunch", "no 60m break (+1h)">>

----------------------------------------------------------------------------
(* compute_overtime, lines 514-532: sessions and outside intervals *)

\* [parse_iso_local(r['timestamp_local']) for r in rows], None kept as <<>>
times_of(rows) == [i \in 1..Len(rows) |-> parse_iso_local(rows[i].timestamp_local)]

\* sessions = sessions_from_points([t for t in commit_times + pr_times + slack_times if t])
sessions(commits, prs, slack_msgs) ==
    sessions_from_points(Flatten(times_of(commits) \o times_of(prs) \o times_of(slack_msgs)))

\* for s,e in ivs: out.extend(intersect_interval_with_outside(s,e))
intersect_each(ivs) ==
    Flatten([i \in 1..Len(ivs) |-> intersect_interval_with_outside(lo(ivs[i]), hi(ivs[i]))])

outside_sessions(commits, prs, slack_msgs) ==
    merge_intervals(intersect_each(sessions(commits, prs, slack_msgs)))

calendar_outside_intervals(rows_from_calendar) ==
    merge_intervals(intersect_each(
        [i \in 1..Len(rows_from_calendar) |->
            <<rows_from_calendar[i].start, rows_from_calendar[i].end>>]))

\* faulty variant: the two interval sets are concatenated, not merged
all_intervals_concat(commits, prs, calendar, slack_msgs) ==
    outside_sessions(commits, prs, slack_msgs) \o calendar_outside_intervals(calendar)

all_intervals(commits, prs, calendar, slack_msgs) ==
    merge_intervals(outside_sessions(commits, prs, slack_msgs)
                    \o calendar_outside_intervals(calendar))

RECURSIVE minutes_on(_, _)
minutes_on(ivs, d) ==
    IF ivs = <<>> THEN 0
    ELSE (IF DateOf(lo(Head(ivs))) = d THEN (hi(Head(ivs)) - lo(Head(ivs))) \div 60 ELSE 0)
         + minutes_on(Tail(ivs), d)

----------------------------------------------------------------------------
(* compute_overtime, lines 534-537: notes *)

all_rows(commits, prs, calendar, slack_msgs) == commits \o prs \o calendar \o slack_msgs

\* datetime.fromisoformat(r['timestamp_local']) raises ValueError on any of them
some_malformed(rows) == \E i \in 1..Len(rows) : ~ rows[i].timestamp_local.ok

\* datetime.fromisoformat(r['timestamp_local']).date()
row_date(r) == DateOf(r.timestamp_local.t)

RECURSIVE notes_loop(_, _, _)
notes_loop(rows, d, notes) ==
    IF rows = <<>> THEN notes
    ELSE notes_loop(Tail(rows), d,
             IF row_date(Head(rows)) = d /\ Len(notes) < NOTES_CAP
             THEN Append(notes, note(Head(rows)))
             ELSE notes)

\* the notes of date d after the loop of lines 534-537
notes_for(commits, prs, calendar, slack_msgs, d) ==
    LET rows == all_rows(commits, prs, calendar, slack_msgs)
        srt == sorted(rows, [i \in 1..Len(rows) |-> rows[i].timestamp_local.t])
    IN  notes_loop(srt, d, <<>>)

\* per_day as it stands at line 538, before the lunch heuristic
per_day_before_lunch(commits, prs, calendar, slack_msgs) ==
    LET ivs == all_intervals(commits, prs, calendar, slack_msgs)
        rows == all_rows(commits, prs, calendar, slack_msgs)
        keys == {DateOf(lo(ivs[i])) : i \in 1..Len(ivs)}
                \cup {row_date(rows[i]) : i \in 1..Len(rows)}
    IN  [d \in keys |->
            [minutes |-> minutes_on(ivs, d),
             notes |-> notes_for(commits, prs, calendar, slack_msgs, d)]]

----------------------------------------------------------------------------
(* compute_overtime, lines 539-610: lunch gap heuristic *)

event_days(commits, prs, calendar, slack_msgs) ==
    LET instants == commits \o prs \o slack_msgs
    IN  {row_date(instants[i]) : i \in 1..Len(instants)}
        \cup {DateOf(calendar[i].start) : i \in 1..Len(calendar)}
        \cup DOMAIN per_day_before_lunch(commits, prs, calendar, slack_msgs)

inside_work_intervals_for_date(d) ==
    LET windows == day_work_windows(d)
    IN  [i \in 1..Len(windows) |->
            <<combine(d, lo(windows[i])), combine(d, hi(windows[i]))>>]

\* the body of the loops of lines 557-582 for one session or meeting (s, e)
occupied_by(s, e, d, inside_windows) ==
    IF DateOf(s) <= d /\ d <= DateOf(e)
    THEN LET day_start == combine(d, hms(0, 0, 0))
             day_end == combine(d, hms(23, 59, 59))
             seg_s == max(s, day_start)
             seg_e == min(e, day_end)
         IN  IF seg_s < seg_e THEN clip(inside_windows, seg_s, seg_e) ELSE <<>>
    ELSE <<>>

\* occupied at line 583: the sessions first, then the calendar rows
occupied(commits, prs, calendar, slack_msgs, d) ==
    LET inside_windows == inside_work_intervals_for_date(d)
        ss == sessions(commits, prs, slack_msgs)
    IN  Flatten([i \in 1..Len(ss) |-> occupied_by(lo(ss[i]), hi(ss[i]), d, inside_windows)])
        \o Flatten([i \in 1..Len(calendar) |->
                       occupied_by(calendar[i].start, calendar[i].end, d, inside_windows)])

\* the inner loop of lines 589-596 for one window ending at iw_e:
\* <<cursor, free>> when the loop ends or breaks
RECURSIVE free_loop(_, _, _, _)
free_loop(occ, iw_e, cursor, free) ==
    IF occ = <<>> THEN <<cursor, free>>
    ELSE LET os_s == lo(Head(occ))
             os_e == hi(Head(occ))
         IN  IF os_e <= cursor \/ os_s >= iw_e
             THEN free_loop(Tail(occ), iw_e, cursor, free)
             ELSE LET free2 == IF cursor < os_s THEN Append(free, <<cursor, os_s>>) ELSE free
                      cursor2 == max(cursor, os_e)
                  IN  IF cursor2 >= iw_e THEN <<cursor2, free2>>
                      ELSE free_loop(Tail(occ), iw_e, cursor2, free2)

\* lines 586-598: the free gaps inside the windows, given merged occupied
RECURSIVE free_gaps(_, _)
free_gaps(inside_windows, occ) ==
    IF inside_windows = <<>> THEN <<>>
    ELSE LET iw_s == lo(Head(inside_windows))
             iw_e == hi(Head(inside_windows))
             after == free_loop(occ, iw_e, iw_s, <<>>)
         IN  (IF after[1] < iw_e THEN Append(after[2], <<after[1], iw_e>>) ELSE after[2])
             \o free_gaps(Tail(inside_windows), occ)

\* faulty variant: a gap must be longer than LUNCH_MINUTES to count as a break
has_lunch_gap_gt(free) ==
    \E i \in 1..Len(free) : hi(free[i]) - lo(free[i]) > LUNCH_MINUTES * 60

has_lunch_gap(free) ==
    \E i \in 1..Len(free) : hi(free[i]) - lo(free[i]) >= LUNCH_MINUTES * 60

\* whether the loop body of lines 550-609, entered for date d, reaches line 601
no_lunch_break(commits, prs, calendar, slack_msgs, d) ==
    /\ day_work_windows(d) # <<>>
    /\ inside_work_intervals_for_date(d) # <<>>
    /\ LET occ == occupied(commits, prs, calendar, slack_msgs, d)
       IN  /\ occ # <<>>
           /\ ~ has_lunch_gap(free_gaps(inside_work_intervals_for_date(d),
                                        merge_intervals(occ)))

\* whether the loop of line 550 visits date d and reaches line 601 for it
lunch_fires(commits, prs, calendar, slack_msgs, d) ==
    /\ d \in event_days(commits, prs, calendar, slack_msgs)
    /\ no_lunch_break(commits, prs, calendar, slack_msgs, d)

\* faulty variant: the lunch note is always put in front, the last note giving way
with_lunch_note_front(notes) ==
    IF \E i \in 1..Len(notes) : notes[i] = lunch_note THEN notes
    ELSE IF Len(notes) < NOTES_CAP THEN <<lunch_note>> \o notes
    ELSE <<lunch_note>> \o SubSeq(notes, 1, Len(notes) - 1)

\* lines 604-609
with_lunch_note(notes) ==
    IF \E i \in 1..Len(notes) : notes[i] = lunch_note THEN notes
    ELSE IF Len(notes) < NOTES_CAP THEN <<lunch_note>> \o notes
    ELSE [notes EXCEPT ![Len(notes)] = lunch_note]

compute_overtime(commits, prs, calendar, slack_msgs) ==
    IF some_malformed(all_rows(commits, prs, calendar, slack_msgs))
    THEN [raised |-> TRUE, per_day |-> <<>>]
    ELSE LET before == per_day_before_lunch(commits, prs, calendar, slack_msgs)
             lunch == {d \in event_days(commits, prs, calendar, slack_msgs) :
                          no_lunch_break(commits, prs, calendar, slack_msgs, d)}
         IN  [raised |-> FALSE,
              per_day |->
                 [d \in DOMAIN before \cup lunch |->
                     LET entry == IF d \in DOMAIN before THEN before[d]
                                  ELSE [minutes |-> 0, notes |-> <<>>]
                     IN  IF d \in lunch
                         THEN [minutes |-> entry.minutes + LUNCH_MINUTES,
                               notes |-> with_lunch_note(entry.notes)]
                         ELSE entry]]

----------------------------------------------------------------------------
(* Configurations *)

\* a weekday table with the list w on Mon..Fri and the list we on Sat, Sun
Table(w, we) == [wd \in 0..6 |-> IF wd <= 4 THEN w ELSE we]

NineToSix == << <<hms(9, 0, 0), hms(18, 0, 0)>> >>

\* SHIFT_WINDOWS as the script sets it (WEEKENDS_COUNT_AS_EXTRA = True)
DefaultTable == Table(NineToSix, <<>>)

\* other tables: working weekends (WEEKENDS_COUNT_AS_EXTRA = False), and
\* tables whose weekday list is unsorted, overlapping or touching
Tables ==
    { DefaultTable,
      Table(NineToSix, NineToSix),
      Table(<< <<hms(13, 0, 0), hms(18, 0, 0)>>, <<hms(9, 0, 0), hms(12, 0, 0)>> >>, <<>>),
      Table(<< <<hms(9, 0, 0), hms(12, 40, 0)>>, <<hms(12, 20, 0), hms(18, 0, 0)>> >>, <<>>),
      Table(<< <<hms(12, 30, 0), hms(18, 0, 0)>>, <<hms(9, 0, 0), hms(12, 30, 0)>> >>, <<>>) }

\* the dates of the runs: 1970-01-01 (a Thursday) .. 1970-01-03 (a Saturday)
Dates == 0..MaxDate
Thu == CHOOSE d \in Dates : weekday(d) = 3
Fri == Thu + 1
Sat == Fri + 1

at(d, h, m, s) == combine(d, hms(h, m, s))

----------------------------------------------------------------------------
(* State machine: main() collects the rows, then runs compute_overtime *)

NoResult == [raised |-> FALSE, per_day |-> <<>>]
NoEvidence == [commits |-> <<>>, prs |-> <<>>, calendar |-> <<>>, slack_msgs |-> <<>>]

n_rows == Len(evidence.commits) + Len(evidence.prs)
          + Len(evidence.calendar) + Len(evidence.slack_msgs)

SeqsUpTo(S, n) == UNION {[1..k -> S] : k \in 0..n}

Idle == /\ arg_intervals = <<>>
        /\ arg_points = <<>>
        /\ ret = <<>>

\* rows.append(...) of collect_git_commits
CollectCommit(rows, limit) ==
    /\ pc = "collect"
    /\ n_rows < limit
    /\ \E r \in rows : evidence' = [evidence EXCEPT !.commits = Append(@, r)]
    /\ UNCHANGED <<SHIFT_WINDOWS, HOLIDAYS, result, rerun, arg_intervals, arg_points, ret, pc>>

\* rows.append(...) of collect_bitbucket_prs
CollectPr(rows, limit) ==
    /\ pc = "collect"
    /\ n_rows < limit
    /\ \E r \in rows : evidence' = [evidence EXCEPT !.prs = Append(@, r)]
    /\ UNCHANGED <<SHIFT_WINDOWS, HOLIDAYS, result, rerun, arg_intervals, arg_points, ret, pc>>

\* add_event of collect_calendar_events
CollectEvent(rows, limit) ==
    /\ pc = "collect"
    /\ n_rows < limit
    /\ \E r \in rows : evidence' = [evidence EXCEPT !.calendar = Append(@, r)]
    /\ UNCHANGED <<SHIFT_WINDOWS, HOLIDAYS, result, rerun, arg_intervals, arg_points, ret, pc>>

\* rows.append(...) of collect_slack_messages_search
CollectSlack(rows, limit) ==
    /\ pc = "collect"
    /\ n_rows < limit
    /\ \E r \in rows : evidence' = [evidence EXCEPT !.slack_msgs = Append(@, r)]
    /\ UNCHANGED <<SHIFT_WINDOWS, HOLIDAYS, result, rerun, arg_intervals, arg_points, ret, pc>>

\* per_day = compute_overtime(commits, prs, calendar_events, slack_msgs)
ComputeOvertime ==
    /\ pc = "collect"
    /\ result' = compute_overtime(evidence.commits, evidence.prs,
                                  evidence.calendar, evidence.slack_msgs)
    /\ pc' = "done"
    /\ UNCHANGED <<SHIFT_WINDOWS, HOLIDAYS, evidence, rerun, arg_intervals, arg_points, ret>>

\* every weekday's list of SHIFT_WINDOWS is replaced by its merged (sorted,
\* coalesced) equivalent
ReplaceByMerged ==
    /\ pc = "done"
    /\ SHIFT_WINDOWS' = [wd \in 0..6 |-> merge_intervals(SHIFT_WINDOWS[wd])]
    /\ pc' = "replaced"
    /\ UNCHANGED <<HOLIDAYS, evidence, result, rerun, arg_intervals, arg_points, ret>>

\* compute_overtime run again on the same rows, under the replaced table
Rerun ==
    /\ pc = "replaced"
    /\ rerun' = compute_overtime(evidence.commits, evidence.prs,
                                 evidence.calendar, evidence.slack_msgs)
    /\ pc' = "rerun"
    /\ UNCHANGED <<SHIFT_WINDOWS, HOLIDAYS, evidence, result, arg_intervals, arg_points, ret>>

(* The engine under the script's own table: Thursday a working day, Friday
   an exception date, Saturday a weekend day *)

CommitRows == {InstantRow("git", t) :
                 t \in {at(Thu, 8, 55, 0), at(Thu, 12, 10, 0), at(Thu, 22, 0, 0),
                        at(Thu, 23, 55, 0), at(Sat, 10, 0, 0)}}
PrRows == {InstantRow("bitbucket_pr", t) : t \in {at(Thu, 22, 40, 0)}}
SlackRows == {InstantRow("slack", t) : t \in {at(Fri, 12, 10, 0)}}
EventRows == { CalendarRow(at(Thu, 9, 0, 0), at(Thu, 18, 0, 0)),
               CalendarRow(at(Thu, 9, 0, 0), at(Thu, 12, 0, 0)),
               CalendarRow(at(Thu, 13, 0, 0), at(Thu, 18, 0, 0)),
               CalendarRow(at(Thu, 21, 55, 0), at(Thu, 22, 10, 0)),
               CalendarRow(at(Thu - 1, 17, 0, 0), at(Thu, 10, 0, 0)) }

Init ==
    /\ SHIFT_WINDOWS = DefaultTable
    /\ HOLIDAYS = {Fri}
    /\ evidence = NoEvidence
    /\ result = NoResult
    /\ rerun = NoResult
    /\ Idle
    /\ pc = "collect"

Next ==
    \/ CollectCommit(CommitRows, MaxEvidence)
    \/ CollectPr(PrRows, MaxEvidence)
    \/ CollectEvent(EventRows, MaxEvidence)
    \/ CollectSlack(SlackRows, MaxEvidence)
    \/ ComputeOvertime

Spec == Init /\ [][Next]_vars

(* The engine under a varied weekday table and exception set *)

CfgCommitRows == {InstantRow("git", t) : t \in {at(Thu, 12, 10, 0)}}
CfgEventRows == { CalendarRow(at(Thu, 9, 0, 0), at(Thu, 18, 0, 0)),
                  CalendarRow(at(Thu, 9, 0, 0), at(Thu, 12, 0, 0)),
                  CalendarRow(at(Thu, 13, 0, 0), at(Thu, 18, 0, 0)),
                  CalendarRow(at(Fri, 22, 0, 0), at(Sat, 18, 0, 0)) }

InitConfig ==
    /\ SHIFT_WINDOWS \in Tables
    /\ HOLIDAYS \in SUBSET {Thu, Sat}
    /\ evidence = NoEvidence
    /\ result = NoResult
    /\ rerun = NoResult
    /\ Idle
    /\ pc = "collect"

NextConfig ==
    \/ CollectCommit(CfgCommitRows, MaxCfgEvidence)
    \/ CollectEvent(CfgEventRows, MaxCfgEvidence)
    \/ ComputeOvertime
    \/ ReplaceByMerged
    \/ Rerun

SpecConfig == InitConfig /\ [][NextConfig]_vars

(* The engine on a crowded working day: enough rows to fill the notes *)

NoteCommitRows == {InstantRow("git", t) : t \in {at(Thu, 12, 10, 0), at(Thu, 22, 0, 0)}}
NotePrRows == {InstantRow("bitbucket_pr", t) : t \in {at(Thu, 8, 55, 0)}}
NoteSlackRows == {InstantRow("slack", t) : t \in {at(Thu, 12, 30, 0)}}
NoteEventRows == { CalendarRow(at(Thu, 9, 0, 0), at(Thu, 18, 0, 0)) }

NextNotes ==
    \/ CollectCommit(NoteCommitRows, MaxNoteEvidence)
    \/ CollectPr(NotePrRows, MaxNoteEvidence)
    \/ CollectEvent(NoteEventRows, MaxNoteEvidence)
    \/ CollectSlack(NoteSlackRows, MaxNoteEvidence)
    \/ ComputeOvertime

SpecNotes == Init /\ [][NextNotes]_vars

(* The engine on rows some of which carry an unparseable timestamp_local *)

BadCommitRows ==
    {InstantRow("git", t) : t \in {at(Thu, 12, 10, 0), at(Thu, 22, 0, 0)}}
    \cup {[source |-> "git", timestamp_local |-> Malformed(0), detail |-> 0]}
BadSlackRows ==
    {InstantRow("slack", at(Thu, 22, 40, 0)),
     [source |-> "slack", timestamp_local |-> Malformed(1), detail |-> 1]}

NextMalformed ==
    \/ CollectCommit(BadCommitRows, MaxEvidence)
    \/ CollectEvent(NoteEventRows, MaxEvidence)
    \/ CollectSlack(BadSlackRows, MaxEvidence)
    \/ ComputeOvertime

SpecMalformed == Init /\ [][NextMalformed]_vars

(* The engine on sessions and meetings that reach over midnight: Friday is
   a working day or an exception date *)

SpanCommitRows == {InstantRow("git", t) :
                     t \in {at(Thu, 22, 0, 0), at(Thu, 23, 55, 0), at(Sat, 0, 5, 0)}}
SpanEventRows == { CalendarRow(at(Thu, 9, 0, 0), at(Thu, 18, 0, 0)),
                   CalendarRow(at(Thu - 1, 17, 0, 0), at(Thu, 10, 0, 0)),
                   CalendarRow(at(Thu, 22, 0, 0), at(Sat, 2, 0, 0)),
                   CalendarRow(at(Fri, 12, 0, 0), at(Sat + 1, 12, 0, 0)) }

InitSpans ==
    /\ SHIFT_WINDOWS = DefaultTable
    /\ HOLIDAYS \in {{}, {Fri}}
    /\ evidence = NoEvidence
    /\ result = NoResult
    /\ rerun = NoResult
    /\ Idle
    /\ pc = "collect"

NextSpans ==
    \/ CollectCommit(SpanCommitRows, MaxSpanEvidence)
    \/ CollectEvent(SpanEventRows, MaxSpanEvidence)
    \/ ComputeOvertime

SpecSpans == InitSpans /\ [][NextSpans]_vars

(* merge_intervals on its own *)

Intervals == {iv \in (0..MaxTime) \X (0..MaxTime) : lo(iv) < hi(iv)}

InitMerge ==
    /\ SHIFT_WINDOWS = DefaultTable
    /\ HOLIDAYS = {}
    /\ evidence = NoEvidence
    /\ result = NoResult
    /\ rerun = NoResult
    /\ arg_intervals \in SeqsUpTo(Intervals, MaxLen)
    /\ arg_points = <<>>
    /\ ret = <<>>
    /\ pc = "call"

CallMergeIntervals ==
    /\ pc = "call"
    /\ ret' = merge_intervals(arg_intervals)
    /\ pc' = "return"
    /\ UNCHANGED <<SHIFT_WINDOWS, HOLIDAYS, evidence, result, rerun, arg_intervals, arg_points>>

NextMerge == CallMergeIntervals

SpecMerge == InitMerge /\ [][NextMerge]_vars

(* sessions_from_points on its own *)

PointTimes == { at(Thu, 9, 0, 0), at(Thu, 9, 5, 0), at(Thu, 9, 50, 0), at(Thu, 9, 50, 1),
                at(Thu, 10, 35, 1), at(Thu, 15, 0, 0) }

InitSessions ==
    /\ SHIFT_WINDOWS = DefaultTable
    /\ HOLIDAYS = {}
    /\ evidence = NoEvidence
    /\ result = NoResult
    /\ rerun = NoResult
    /\ arg_intervals = <<>>
    /\ arg_points \in SeqsUpTo(PointTimes, MaxPoints)
    /\ ret = <<>>
    /\ pc = "call"

CallSessionsFromPoints ==
    /\ pc = "call"
    /\ ret' = sessions_from_points(arg_points)
    /\ pc' = "return"
    /\ UNCHANGED <<SHIFT_WINDOWS, HOLIDAYS, evidence, result, rerun, arg_intervals, arg_points>>

NextSessions == CallSessionsFromPoints

SpecSessions == InitSessions /\ [][NextSessions]_vars

----------------------------------------------------------------------------
(* Properties *)

\* the dates a run over Dates can report on: one day of padding either side
ReportDates == {d - 1 : d \in Dates} \cup Dates \cup {d + 1 : d \in Dates}

\* the minutes a result reports for date d (0 when the date has no entry)
MinutesAt(res, d) == IF d \in DOMAIN res.per_day THEN res.per_day[d].minutes ELSE 0

SameMinutes(r1, r2) ==
    /\ r1.raised = r2.raised
    /\ \A d \in ReportDates : MinutesAt(r1, d) = MinutesAt(r2, d)

Range(f) == {f[i] : i \in DOMAIN f}

\* the session-outside intervals of the rows collected
SessionOutside == Range(outside_sessions(evidence.commits, evidence.prs, evidence.slack_msgs))

InsideSessionOutside(r) ==
    \E iv \in SessionOutside : lo(iv) <= r.start /\ r.end <= hi(iv)

\* the meetings cut out of a session-outside interval: they start and end at
\* its ends or a minute inside them
MeetingsInside(iv) ==
    {CalendarRow(a, b) :
        <<a, b>> \in {x \in {lo(iv), lo(iv) + 60, hi(iv)}
                            \X {lo(iv), lo(iv) + 60, hi(iv)} : x[1] < x[2]}}

\* C1: time covered by both a session and a meeting is counted once: adding a
\* calendar row whose span lies inside a session-outside interval already
\* present leaves the minutes of every date as the run reported them.
C1_CountedOnce ==
    pc = "done" =>
        \A r \in EventRows \cup UNION {MeetingsInside(iv) : iv \in SessionOutside} :
            InsideSessionOutside(r) =>
                \A res \in {compute_overtime(evidence.commits, evidence.prs,
                                              Append(evidence.calendar, r),
                                              evidence.slack_msgs)} :
                    SameMinutes(res, result)

\* a run whose meeting 21:55-22:10 lies inside the session 21:50-22:15 of a
\* commit at 22:00: the day is credited the 25 minutes of the session
C1_Witness ==
    /\ pc = "done"
    /\ \E i \in 1..Len(evidence.calendar) : InsideSessionOutside(evidence.calendar[i])
    /\ MinutesAt(result, Thu) = 25

Swap(rows, i, j) == [rows EXCEPT ![i] = rows[j], ![j] = rows[i]]
Without(rows, i) == SubSeq(rows, 1, i - 1) \o SubSeq(rows, i + 1, Len(rows))

\* the evidence with two rows of one collection exchanged
Reordered ==
    {[evidence EXCEPT ![c] = Swap(@, i, j)] :
        <<c, i, j>> \in {x \in {"commits", "prs", "calendar", "slack_msgs"}
                                \X (1..MaxEvidence + 1) \X (1..MaxEvidence + 1) :
                            x[2] < x[3] /\ x[3] <= Len(evidence[x[1]])}}

\* the evidence with one instant row moved to another instant collection
Moved ==
    {[evidence EXCEPT ![from] = Without(@, i), ![to] = Append(@, evidence[from][i])] :
        <<from, to, i>> \in {x \in {"commits", "prs", "slack_msgs"}
                                   \X {"commits", "prs", "slack_msgs"}
                                   \X (1..MaxEvidence + 1) :
                                x[1] # x[2] /\ x[3] <= Len(evidence[x[1]])}}

\* C2: the minutes of every date do not depend on the order of the rows
\* inside a collection, nor on which of the commit, review and chat
\* collections an instant row sits in.
C2_OrderIndependent ==
    pc = "done" =>
        \A ev \in Reordered \cup Moved :
            \A res \in {compute_overtime(ev.commits, ev.prs, ev.calendar, ev.slack_msgs)} :
                SameMinutes(res, result)

\* a run with two commits collected latest first and a merged review
C2_Witness ==
    /\ pc = "done"
    /\ Len(evidence.commits) = 2
    /\ evidence.commits[1].timestamp_local.t > evidence.commits[2].timestamp_local.t
    /\ Len(evidence.prs) = 1
    /\ MinutesAt(result, Thu) > 0

Overlap(a, b) == lo(a) < hi(b) /\ lo(b) < hi(a)

PartitionsDay(d) ==
    LET inside == inside_work_intervals_for_date(d)
        outside == outside_segments_for_day(d)
    IN  /\ merge_intervals(inside \o outside) = << <<full_start(d), full_end(d)>> >>
        /\ \A w \in Range(inside) : \A o \in Range(outside) : ~ Overlap(w, o)

\* C3: the working windows and the outside segments of every date partition
\* the day: merged together they are the one interval [00:00:00, 23:59:59],
\* and no outside segment overlaps a working window.
C3_Partition == \A d \in ReportDates : PartitionsDay(d)

\* a configuration with an exception date, a working day whose windows are
\* configured out of order, and a weekend day without windows
C3_Witness ==
    /\ pc = "done"
    /\ Thu \in HOLIDAYS
    /\ Len(day_work_windows(Fri)) = 2
    /\ lo(day_work_windows(Fri)[1]) > lo(day_work_windows(Fri)[2])
    /\ Len(outside_segments_for_day(Fri)) = 3
    /\ Sat \notin HOLIDAYS /\ day_work_windows(Sat) = <<>>

Permuted(xs) == {[i \in 1..Len(xs) |-> xs[p[i]]] : p \in Permutations(1..Len(xs))}

CoversPoint(xs, t) == \E iv \in Range(xs) : lo(iv) <= t /\ t <= hi(iv)
CoversUnit(xs, t) == \E iv \in Range(xs) : lo(iv) <= t /\ t + 1 <= hi(iv)

\* C4: merge_intervals is idempotent and order-independent; its result is
\* sorted, each interval starting strictly after the previous one ends, and
\* covers exactly what the input covers (touching and overlapping inputs are
\* folded, the maximal end kept).
C4_Merge ==
    pc = "return" /\ arg_points = <<>> =>
        /\ merge_intervals(ret) = ret
        /\ \A xs \in Permuted(arg_intervals) : merge_intervals(xs) = ret
        /\ \A i \in 1..Len(ret) : lo(ret[i]) < hi(ret[i])
        /\ \A i \in 1..Len(ret) - 1 : hi(ret[i]) < lo(ret[i + 1])
        /\ \A t \in 0..MaxTime : CoversPoint(ret, t) <=> CoversPoint(arg_intervals, t)
        /\ \A t \in 0..MaxTime - 1 : CoversUnit(ret, t) <=> CoversUnit(arg_intervals, t)

\* three intervals given out of order, two of them touching and the third
\* overlapping both, merged into one
C4_Witness ==
    /\ pc = "return"
    /\ arg_intervals = << <<1, 2>>, <<0, 1>>, <<1, 3>> >>
    /\ ret = << <<0, 3>> >>

NonDecreasing(xs) == \A i \in 1..Len(xs) - 1 : xs[i] <= xs[i + 1]

\* the points in ascending order
Ascending(xs) == CHOOSE ys \in Permuted(xs) : NonDecreasing(ys)

\* the positions i of the ascending points after which the gap to the
\* next point exceeds the threshold
Splits(sp) == {i \in 1..Len(sp) - 1 : sp[i + 1] - sp[i] > minutes(gap_min)}

\* the sessions the claim describes: the maximal runs a..b without a split
RunsOf(sp) ==
    {<<sp[a] - minutes(pad_before_min), sp[b] + minutes(pad_after_min)>> :
        <<a, b>> \in {x \in (1..Len(sp)) \X (1..Len(sp)) :
                        /\ x[1] <= x[2]
                        /\ x[1] = 1 \/ (x[1] - 1) \in Splits(sp)
                        /\ x[2] = Len(sp) \/ x[2] \in Splits(sp)
                        /\ \A i \in x[1]..(x[2] - 1) : i \notin Splits(sp)}}

\* C5: sessions_from_points starts a new session exactly where the gap
\* between consecutive sorted points is greater than gap_min minutes (a gap
\* of exactly gap_min does not split); every session is [first point -
\* pad_before_min, last point + pad_after_min]; there is one session more
\* than there are such gaps; no points, no sessions.
C5_Sessions ==
    pc = "return" /\ arg_intervals = <<>> =>
        IF arg_points = <<>> THEN ret = <<>>
        ELSE LET sp == Ascending(arg_points)
             IN  /\ Len(ret) = 1 + Cardinality(Splits(sp))
                 /\ Range(ret) = RunsOf(sp)
                 /\ \A i \in 1..Len(ret) - 1 : lo(ret[i]) < lo(ret[i + 1])

\* the points 09:50, 15:00, 09:00, 09:05: the gap 09:05 -> 09:50 is exactly
\* 45 minutes and does not split, the gap 09:50 -> 15:00 does
C5_Witness ==
    /\ pc = "return"
    /\ arg_points = <<at(Thu, 9, 50, 0), at(Thu, 15, 0, 0), at(Thu, 9, 0, 0), at(Thu, 9, 5, 0)>>
    /\ ret = << <<at(Thu, 8, 50, 0), at(Thu, 10, 5, 0)>>,
                <<at(Thu, 14, 50, 0), at(Thu, 15, 15, 0)>> >>

\* the sessions and the meetings of the rows collected
EvidenceIntervals ==
    Range(sessions(evidence.commits, evidence.prs, evidence.slack_msgs))
    \cup {<<evidence.calendar[i].start, evidence.calendar[i].end>> :
             i \in 1..Len(evidence.calendar)}

TouchesDate(d) == \E iv \in EvidenceIntervals : DateOf(lo(iv)) <= d /\ d <= DateOf(hi(iv))

\* a free gap starts at the start of a window or at the end of a piece of
\* evidence; it is a break when the LUNCH_MINUTES after its start lie in
\* the window and meet no evidence
HasFreeBreak(d) ==
    \E w \in Range(inside_work_intervals_for_date(d)) :
        \E a \in {lo(w)} \cup {hi(iv) : iv \in EvidenceIntervals} :
            /\ lo(w) <= a
            /\ a + minutes(LUNCH_MINUTES) <= hi(w)
            /\ \A iv \in EvidenceIntervals :
                   ~ (lo(iv) < a + minutes(LUNCH_MINUTES) /\ a < hi(iv))

LunchDue(d) ==
    /\ day_work_windows(d) # <<>>
    /\ TouchesDate(d)
    /\ ~ HasFreeBreak(d)

\* the minutes of date d before the lunch heuristic: the merged outside
\* intervals that start on d
MinutesBeforeLunch(d) ==
    minutes_on(all_intervals(evidence.commits, evidence.prs,
                             evidence.calendar, evidence.slack_msgs), d)

\* C6: the lunch heuristic adds exactly LUNCH_MINUTES, once, to a date iff
\* the date has a working window, some session or meeting touches the date,
\* and the working windows minus the sessions and meetings hold no free gap
\* of LUNCH_MINUTES or more (a gap of exactly LUNCH_MINUTES is a break).
C6_Lunch ==
    pc = "done" =>
        /\ ~ result.raised
        /\ \A d \in ReportDates :
               MinutesAt(result, d)
                   = MinutesBeforeLunch(d) + (IF LunchDue(d) THEN LUNCH_MINUTES ELSE 0)

\* meetings 09:00-12:00 and 13:00-18:00 leave a break of exactly 60 minutes;
\* a commit at 12:10 (session 12:00-12:25) takes it away: 60 minutes added
C6_Witness ==
    /\ pc = "done"
    /\ Len(evidence.calendar) = 2
    /\ Len(evidence.commits) = 1
    /\ LunchDue(Thu)
    /\ MinutesBeforeLunch(Thu) = 0
    /\ MinutesAt(result, Thu) = LUNCH_MINUTES

HasLunchNote(res, d) ==
    /\ d \in DOMAIN res.per_day
    /\ lunch_note \in Range(res.per_day[d].notes)

\* C7: for every date of the exception set, whatever the weekday table
\* holds, day_work_windows gives no windows, outside_segments_for_day gives
\* the whole day as one interval, and a run adds neither the lunch minutes
\* nor the lunch note to that date.
C7_ExceptionDates ==
    \A d \in HOLIDAYS :
        /\ day_work_windows(d) = <<>>
        /\ outside_segments_for_day(d) = << <<full_start(d), full_end(d)>> >>
        /\ pc = "done" =>
              /\ MinutesAt(result, d) = MinutesBeforeLunch(d)
              /\ ~ HasLunchNote(result, d)

\* Thursday is an exception date on a table that gives Thursdays working
\* windows, and a meeting fills 09:00-18:00 of it: 540 minutes, all outside
C7_Witness ==
    /\ pc = "done"
    /\ Thu \in HOLIDAYS
    /\ SHIFT_WINDOWS[weekday(Thu)] # <<>>
    /\ \E i \in 1..Len(evidence.calendar) :
           /\ evidence.calendar[i].start = at(Thu, 9, 0, 0)
           /\ evidence.calendar[i].end = at(Thu, 18, 0, 0)
    /\ MinutesAt(result, Thu) = 9 * 60
    /\ ~ HasLunchNote(result, Thu)

Occurrences(notes, n) == Cardinality({i \in 1..Len(notes) : notes[i] = n})

NotesBeforeLunch(d) ==
    notes_for(evidence.commits, evidence.prs, evidence.calendar, evidence.slack_msgs, d)

LunchFired(d) ==
    lunch_fires(evidence.commits, evidence.prs, evidence.calendar, evidence.slack_msgs, d)

\* C8 as stated: whenever the lunch heuristic fires for a date, the lunch
\* note is afterwards at the front of the date's notes, occurs once, and the
\* list holds at most NOTES_CAP notes, the previously last note being
\* dropped when the list was full.
C8_LunchNoteInFront ==
    pc = "done" =>
        \A d \in ReportDates :
            LunchFired(d) =>
                LET notes == result.per_day[d].notes
                    before == NotesBeforeLunch(d)
                IN  /\ notes # <<>> /\ Head(notes) = lunch_note
                    /\ Occurrences(notes, lunch_note) = 1
                    /\ Len(notes) <= NOTES_CAP
                    /\ Len(before) = NOTES_CAP =>
                          notes = <<lunch_note>> \o SubSeq(before, 1, NOTES_CAP - 1)

\* C8 (amended): whenever the lunch heuristic fires for a date, the lunch
\* note occurs once in the date's notes and the list holds at most NOTES_CAP
\* notes; the note is put in front when the notes were fewer than NOTES_CAP,
\* and takes the place of the last note, the others staying where they
\* were, when the list was full.
C8_LunchNote ==
    pc = "done" =>
        \A d \in ReportDates :
            LunchFired(d) =>
                LET notes == result.per_day[d].notes
                    before == NotesBeforeLunch(d)
                IN  /\ Occurrences(notes, lunch_note) = 1
                    /\ Len(notes) <= NOTES_CAP
                    /\ IF Len(before) < NOTES_CAP
                       THEN notes = <<lunch_note>> \o before
                       ELSE notes = SubSeq(before, 1, NOTES_CAP - 1) \o <<lunch_note>>

\* a Thursday with six rows, one of them a meeting 09:00-18:00: the notes
\* were full before the lunch note took the fifth place
C8_Witness ==
    /\ pc = "done"
    /\ n_rows = NOTES_CAP + 1
    /\ LunchFired(Thu)
    /\ Len(NotesBeforeLunch(Thu)) = NOTES_CAP
    /\ result.per_day[Thu].notes[NOTES_CAP] = lunch_note
    /\ result.per_day[Thu].notes[1] # lunch_note

WellFormed(rows) == SelectSeq(rows, LAMBDA r : r.timestamp_local.ok)

\* C9: compute_overtime never fails on a malformed timestamp: the rows that
\* carry one are dropped, and the result is the result of the run on the
\* other rows.
C9_MalformedDropped ==
    pc = "done" =>
        /\ ~ result.raised
        /\ result = compute_overtime(WellFormed(evidence.commits), WellFormed(evidence.prs),
                                     WellFormed(evidence.calendar),
                                     WellFormed(evidence.slack_msgs))

\* C10: a run under a table with unsorted or overlapping windows gives every
\* date the minutes and the lunch decision of the run on the same rows under
\* the table with every list replaced by its merged equivalent.
C10_MergeBeforeUse ==
    pc = "rerun" =>
        /\ SameMinutes(result, rerun)
        /\ \A d \in ReportDates : HasLunchNote(result, d) <=> HasLunchNote(rerun, d)

\* the intervals of the sequence ivs lie each on one date, in ascending
\* order, the next one starting after the one before has ended
OnOneDateEach(ivs) ==
    /\ \A i \in 1..Len(ivs) : lo(ivs[i]) < hi(ivs[i]) /\ DateOf(lo(ivs[i])) = DateOf(hi(ivs[i]))
    /\ \A i \in 1..Len(ivs) - 1 : hi(ivs[i]) < lo(ivs[i + 1])

InsideOutsideWindow(iv) ==
    \E o \in Range(outside_segments_for_day(DateOf(lo(iv)))) :
        lo(o) <= lo(iv) /\ hi(iv) <= hi(o)

\* C11: every interval intersect_interval_with_outside returns for a
\* session or meeting lies on one date, inside the session or meeting and
\* inside an outside window of that date; no interval of the final merged
\* set of a run spans a date boundary, and no two of them share a second.
C11_SplitByDay ==
    /\ \A iv \in EvidenceIntervals :
           LET out == intersect_interval_with_outside(lo(iv), hi(iv))
           IN  /\ OnOneDateEach(out)
               /\ \A r \in Range(out) :
                      /\ lo(iv) <= lo(r) /\ hi(r) <= hi(iv)
                      /\ InsideOutsideWindow(r)
    /\ OnOneDateEach(all_intervals(evidence.commits, evidence.prs,
                                   evidence.calendar, evidence.slack_msgs))

\* a meeting from Thursday 22:00 to Saturday 02:00 with Friday an exception
\* date: three outside intervals, the middle one the whole of Friday, its
\* 1439 minutes credited to Friday
C11_Witness ==
    /\ pc = "done"
    /\ Fri \in HOLIDAYS
    /\ evidence.calendar = <<CalendarRow(at(Thu, 22, 0, 0), at(Sat, 2, 0, 0))>>
    /\ intersect_interval_with_outside(at(Thu, 22, 0, 0), at(Sat, 2, 0, 0))
           = << <<at(Thu, 22, 0, 0), full_end(Thu)>>,
                <<full_start(Fri), full_end(Fri)>>,
                <<full_start(Sat), at(Sat, 2, 0, 0)>> >>
    /\ MinutesAt(result, Fri) = 23 * 60 + 59

\* the instant records of the rows collected
Instants == evidence.commits \o evidence.prs \o evidence.slack_msgs

\* the padded session of a lone point t
PaddedSession(t) == <<t - minutes(pad_before_min), t + minutes(pad_after_min)>>

\* the interval iv lies on one working date, outside all its working windows
OutsideOnWorkingDate(iv) ==
    /\ DateOf(lo(iv)) = DateOf(hi(iv))
    /\ day_work_windows(DateOf(lo(iv))) # <<>>
    /\ \A w \in Range(inside_work_intervals_for_date(DateOf(lo(iv)))) : ~ Overlap(w, iv)

\* C12: a run on one instant record and nothing else, whose padded session
\* lies on one working date outside its working windows, has that session
\* as its one outside interval and reports for that date, and for no other,
\* pad_before_min + pad_after_min minutes (25) and the record's note,
\* without lunch minutes or lunch note.
C12_IsolatedInstant ==
    (pc = "done" /\ evidence.calendar = <<>> /\ Len(Instants) = 1) =>
        LET r == Instants[1]
            ps == PaddedSession(r.timestamp_local.t)
            d == DateOf(lo(ps))
        IN  OutsideOnWorkingDate(ps) =>
                /\ intersect_interval_with_outside(lo(ps), hi(ps)) = <<ps>>
                /\ all_intervals(evidence.commits, evidence.prs,
                                 evidence.calendar, evidence.slack_msgs) = <<ps>>
                /\ result = [raised |-> FALSE,
                             per_day |-> [x \in {d} |->
                                 [minutes |-> pad_before_min + pad_after_min,
                                  notes |-> <<note(r)>>]]]

\* a run on the one commit of Thursday 22:00: 25 minutes for Thursday
C12_Witness ==
    /\ pc = "done"
    /\ evidence = [NoEvidence EXCEPT !.commits = <<InstantRow("git", at(Thu, 22, 0, 0))>>]
    /\ OutsideOnWorkingDate(PaddedSession(at(Thu, 22, 0, 0)))
    /\ MinutesAt(result, Thu) = 25
    /\ ~ HasLunchNote(result, Thu)

\* the sessions of ret that hold the point t
SessionsHolding(t) == {i \in 1..Len(ret) : lo(ret[i]) <= t /\ t <= hi(ret[i])}

\* C13: with gap_min 45, pad_before_min 10 and pad_after_min 15 the
\* sessions sessions_from_points returns are in ascending order of start,
\* each starts more than gap_min - pad_before_min - pad_after_min minutes
\* (20) after the one before has ended, and every point given lies in
\* exactly one of them.
C13_SessionsApart ==
    pc = "return" /\ arg_intervals = <<>> =>
        /\ \A i \in 1..Len(ret) :
               lo(ret[i]) < hi(ret[i])
        /\ \A i \in 1..Len(ret) - 1 :
               /\ lo(ret[i]) < lo(ret[i + 1])
               /\ lo(ret[i + 1]) - hi(ret[i])
                      > minutes(gap_min - pad_before_min - pad_after_min)
        /\ \A k \in 1..Len(arg_points) :
               Cardinality(SessionsHolding(arg_points[k])) = 1

\* the points 10:35:01 and 09:50:00, 45 minutes and a second apart: the
\* second session starts 20 minutes and a second after the first has ended
C13_Witness ==
    /\ pc = "return"
    /\ arg_points = <<at(Thu, 10, 35, 1), at(Thu, 9, 50, 0)>>
    /\ Len(ret) = 2
    /\ lo(ret[2]) - hi(ret[1]) = minutes(20) + 1

RECURSIVE TotalSeconds(_)
TotalSeconds(ivs) ==
    IF ivs = <<>> THEN 0 ELSE (hi(Head(ivs)) - lo(Head(ivs))) + TotalSeconds(Tail(ivs))

\* the length of the outside windows of date d in whole minutes
OutsideMinutes(d) == TotalSeconds(outside_segments_for_day(d)) \div 60

\* C14: the minutes a run reports for a date are a natural number, at most
\* the whole minutes of the date's outside windows plus LUNCH_MINUTES; for a
\* date without working windows they are at most 1439, the whole minutes of
\* 00:00:00-23:59:59.
C14_MinutesBounded ==
    pc = "done" =>
        \A d \in DOMAIN result.per_day :
            /\ result.per_day[d].minutes \in Nat
            /\ result.per_day[d].minutes <= OutsideMinutes(d) + LUNCH_MINUTES
            /\ day_work_windows(d) = <<>> =>
                  /\ OutsideMinutes(d) = 23 * 60 + 59
                  /\ result.per_day[d].minutes <= OutsideMinutes(d)

\* meetings Thursday 22:00 - Saturday 02:00 and Friday 12:00 - Sunday 12:00
\* with Friday a working day: Friday gets its 899 outside minutes and the
\* lunch minutes, Saturday the 1439 minutes of a day without windows
C14_Witness ==
    /\ pc = "done"
    /\ HOLIDAYS = {}
    /\ Len(evidence.calendar) = 2
    /\ day_work_windows(Fri) # <<>>
    /\ MinutesAt(result, Fri) = OutsideMinutes(Fri) + LUNCH_MINUTES
    /\ MinutesAt(result, Fri) = 899 + 60
    /\ day_work_windows(Sat) = <<>>
    /\ MinutesAt(result, Sat) = 1439

====
